---- MODULE Spec2Model ----
(***************************************************************************)
(* Singleton-factory lifecycle and composition layer of the template MCP   *)
(* server: MCPServerFactory, WebServerFactory and IntegratedServerFactory  *)
(* with the module-level instance slots they guard.                        *)
(*                                                                         *)
(* Python objects are modelled by their identity: the n-th FastMCP (or     *)
(* FastAPI) object constructed in the process has identity n, and None is  *)
(* identity 0.  Every factory method is a function from the process state  *)
(* to a result [st, exc, ret]: the state it leaves behind, the exception   *)
(* it raises ("none" when it returns) and the identity it returns.         *)
(***************************************************************************)
EXTENDS Integers, Sequences, FiniteSets, TLC

\* ---- bounds ------------------------------------------------------------
\* FastMCP objects constructed in one run
MaxMcp == 2
\* FastAPI objects constructed in one run
MaxWeb == 2
\* sub-applications mounted on one FastAPI object
MaxMounts == 2

\* ---- values ------------------------------------------------------------
\* Python's None, as the identity held by an empty slot
None == 0

\* a keyword argument that the caller left out (or passed as None)
Absent == "<absent>"

\* class MCPTransportType(str, Enum): member name and member value
MCPTransportType ==
    { [name |-> "SSE", value |-> "sse"],
      [name |-> "HTTP_STREAMING", value |-> "http-streaming"] }

SSE == [name |-> "SSE", value |-> "sse"]

HTTP_STREAMING == [name |-> "HTTP_STREAMING", value |-> "http-streaming"]

\* _DEFAULT_MOUNT_PATHS: dict keyed by the enum member
DEFAULT_MOUNT_PATHS_Swapped(member) ==
    IF member = SSE THEN "/mcp" ELSE "/sse"

DEFAULT_MOUNT_PATHS(member) ==
    IF member = SSE THEN "/sse" ELSE "/mcp"

\* Values a caller can pass as mcp_transport.  kind "str" is a plain string,
\* kind "enum" an MCPTransportType member (val is the member's name), kind
\* "other" a value that is neither (an int, None), kind "absent" no argument.
TransportInputs ==
    { [kind |-> "absent", val |-> Absent],
      [kind |-> "str", val |-> "sse"],
      [kind |-> "str", val |-> "http-streaming"],
      [kind |-> "str", val |-> "stdio"],
      [kind |-> "str", val |-> "SSE"],
      [kind |-> "enum", val |-> "SSE"],
      [kind |-> "enum", val |-> "HTTP_STREAMING"],
      [kind |-> "other", val |-> "42"] }

MountPathInputs == { Absent, "/api" }

TokenInputs == { Absent, "test_token" }

RetryInputs == { 0, 3 }

\* every combination of keyword arguments of IntegratedServerFactory.create
IntegratedServerKwargs ==
    [ token : TokenInputs, mcp_transport : TransportInputs,
      mcp_mount_path : MountPathInputs, retry : RetryInputs ]

\* the calls made when the three factories are driven together: each adapter
\* at its default path, an invalid string, and a non-string with and without
\* a mount path
CommonKwargs ==
    { [ token |-> Absent, mcp_transport |-> [kind |-> "str", val |-> "sse"],
        mcp_mount_path |-> Absent, retry |-> 3 ],
      [ token |-> Absent, mcp_transport |-> [kind |-> "enum", val |-> "HTTP_STREAMING"],
        mcp_mount_path |-> Absent, retry |-> 3 ],
      [ token |-> Absent, mcp_transport |-> [kind |-> "str", val |-> "stdio"],
        mcp_mount_path |-> Absent, retry |-> 3 ],
      [ token |-> Absent, mcp_transport |-> [kind |-> "other", val |-> "42"],
        mcp_mount_path |-> Absent, retry |-> 3 ],
      [ token |-> Absent, mcp_transport |-> [kind |-> "other", val |-> "42"],
        mcp_mount_path |-> "/api", retry |-> 3 ] }

NoKwargs ==
    [ token |-> Absent, mcp_transport |-> [kind |-> "absent", val |-> Absent],
      mcp_mount_path |-> Absent, retry |-> 3 ]

\* What the process finds outside itself when it builds a Settings object:
\* ok tells whether the environment variables and the .env file pass the
\* Settings validation, dotenv whether a file ".env" exists in the working
\* directory.
Envs == [ ok : BOOLEAN, dotenv : BOOLEAN ]

\* the environments in which the file ".env" exists
FactoryEnvs == { e \in Envs : e.dotenv }

\* the API token that the environment (variables, .env file) supplies
EnvToken == "env_token"

\* Arguments of get_settings: env_file, no_env_file, force_reload and the
\* overrides api_token and port (None: the override is not passed).
GetSettingsArgs ==
    [ env_file : { Absent, "/custom/.env" }, no_env_file : BOOLEAN,
      force_reload : BOOLEAN, api_token : { Absent, "custom_token" },
      port : { None, 9000 } ]

\* get_settings()
NoSettingsArgs ==
    [ env_file |-> Absent, no_env_file |-> FALSE, force_reload |-> FALSE,
      api_token |-> Absent, port |-> None ]

\* ---- state -------------------------------------------------------------
VARIABLES
    MCP_SERVER_INSTANCE,        \* src/mcp/app.py  _MCP_SERVER_INSTANCE
    WEB_SERVER_INSTANCE,        \* src/web_server/app.py  _WEB_SERVER_INSTANCE
    INTEGRATED_SERVER_INSTANCE, \* src/integrate/app.py  _INTEGRATED_SERVER_INSTANCE
    settings_instance,          \* src/config.py  _settings_instance
    settings_objs,              \* the Settings objects, by identity
    apps,                       \* the FastAPI objects constructed so far
    nMcp,                       \* FastMCP objects constructed so far
    call,                       \* the last top-level call and its outcome
    captured,                   \* instance a caller took from create() just before
    okCreates,                  \* successful composition creates since the HTTP
                                \* instance's slot was last reset
    threads                     \* concurrent callers of WebServerFactory.create:
                                \* the statement each is at, and its locals

vars == << MCP_SERVER_INSTANCE, WEB_SERVER_INSTANCE, INTEGRATED_SERVER_INSTANCE,
           settings_instance, settings_objs, apps, nMcp, call, captured,
           okCreates, threads >>

\* The process state the factory methods read and write.  log lists, in
\* order of completion, the factory methods and mounts executed during the
\* current top-level call, each with its outcome.
S == [ mcp |-> MCP_SERVER_INSTANCE, web |-> WEB_SERVER_INSTANCE,
       integ |-> INTEGRATED_SERVER_INSTANCE, settings |-> settings_instance,
       sobjs |-> settings_objs, apps |-> apps, nMcp |-> nMcp, log |-> << >> ]

Return(s, v) == [st |-> s, exc |-> "none", ret |-> v]

Raise(s, e) == [st |-> s, exc |-> e, ret |-> None]

\* r is the result of running the body of method name: record the call
Logged(name, r) ==
    [r EXCEPT !.st.log = Append(@, [name |-> name, exc |-> r.exc, ret |-> r.ret])]

\* the same for a call whose arguments are recorded too
LoggedWith(name, args, r) ==
    [r EXCEPT !.st.log = Append(@, [name |-> name, exc |-> r.exc, ret |-> r.ret,
                                    args |-> args])]

\* how many times method name was invoked during the call
Count(log, name) == Cardinality({ i \in DOMAIN log : log[i].name = name })

\* the two callers that run WebServerFactory.create concurrently
Callers == { 1, 2 }

\* ---- src/config.py -----------------------------------------------------
\* The place of a Settings object that has been freed.  A Settings object
\* that neither the cache nor the caller refers to is freed, and its identity
\* can be given to an object constructed later.
Freed == [ env_file |-> "<freed>", api_token |-> "<freed>", port |-> None ]

\* lines 283-294: the keyword arguments handed to the Settings constructor
\* (env_file stands for _env_file)
config_kwargs(a, env) ==
    [ env_file |-> IF a.no_env_file THEN Absent
                   ELSE IF a.env_file # Absent THEN a.env_file
                   ELSE IF env.dotenv THEN ".env"
                   ELSE Absent,
      api_token |-> a.api_token,
      port |-> a.port ]

\* Settings(**kw): a keyword argument has priority over the environment;
\* env_file records the _env_file the constructor was handed
Settings(kw) ==
    [ env_file |-> kw.env_file,
      api_token |-> IF kw.api_token # Absent THEN kw.api_token ELSE EnvToken,
      port |-> IF kw.port # None THEN kw.port ELSE 8000 ]

\* the identity of the next Settings object constructed
NewSettings(s) ==
    CHOOSE i \in 1 .. Len(s.sobjs) + 1 :
        /\ i <= Len(s.sobjs) => s.sobjs[i] = Freed
        /\ \A j \in 1 .. i - 1 : s.sobjs[j] # Freed

get_settings_NoReload(s, a, env) ==
    LoggedWith("get_settings", a,
        IF s.settings # None THEN Return(s, s.settings)
        ELSE IF ~env.ok THEN Raise(s, "ValidationError")
        ELSE LET id == NewSettings(s)
                 obj == Settings(config_kwargs(a, env))
             IN  Return([s EXCEPT !.settings = id,
                                  !.sobjs = IF id > Len(@) THEN Append(@, obj)
                                            ELSE [@ EXCEPT ![id] = obj]], id))

get_settings(s, a, env) ==
    LoggedWith("get_settings", a,
        IF s.settings # None /\ ~a.force_reload THEN Return(s, s.settings)
        ELSE IF ~env.ok THEN Raise(s, "ValidationError")
        ELSE LET id == NewSettings(s)
                 obj == Settings(config_kwargs(a, env))
             IN  Return([s EXCEPT !.settings = id,
                                  !.sobjs = IF id > Len(@) THEN Append(@, obj)
                                            ELSE [@ EXCEPT ![id] = obj]], id))

reset_settings(s) ==
    Logged("reset_settings", Return([s EXCEPT !.settings = None], None))

\* ---- src/mcp/app.py (MCPServerFactory) ---------------------------------
MCPServerFactory_create(s) ==
    Logged("mcp_factory.create",
        IF s.mcp # None THEN Raise(s, "AssertionError")
        ELSE Return([s EXCEPT !.mcp = s.nMcp + 1, !.nMcp = @ + 1], s.nMcp + 1))

MCPServerFactory_get(s) ==
    Logged("mcp_factory.get",
        IF s.mcp = None THEN Raise(s, "AssertionError")
        ELSE Return(s, s.mcp))

MCPServerFactory_reset(s) ==
    Logged("mcp_factory.reset", Return([s EXCEPT !.mcp = None], None))

\* the hook returned is bound to the FastMCP object of the slot
MCPServerFactory_lifespan(s) ==
    Logged("mcp_factory.lifespan",
        IF s.mcp = None THEN Raise(s, "AssertionError")
        ELSE Return(s, s.mcp))

\* FastMCP.sse_app() / FastMCP.streamable_http_app(): a sub-application
\* serving the FastMCP object it was taken from
sse_app(server) == [kind |-> "sse_app", server |-> server]

streamable_http_app(server) == [kind |-> "streamable_http_app", server |-> server]

\* ---- src/web_server/app.py (WebServerFactory) --------------------------
\* FastAPI(title=..., lifespan=hook): a new application object
FastAPI(hook) ==
    [lifespan |-> hook, cors |-> None, health |-> FALSE, mounts |-> << >>]

\* app.mount(path, sub_app) appends a route to the application
mount(s, app, path, sub_app) ==
    Logged("mount",
        Return([s EXCEPT !.apps[app].mounts =
                    Append(@, [path |-> path, app |-> sub_app])], app))

WebServerFactory_build_Bare(s, env) ==
    LET l == MCPServerFactory_lifespan(s) IN
    IF l.exc # "none" THEN Raise(l.st, l.exc)
    ELSE
        LET id == Len(l.st.apps) + 1
            s1 == [l.st EXCEPT !.web = id, !.apps = Append(@, FastAPI(l.ret))]
            g  == get_settings(s1, NoSettingsArgs, env)
        IN  IF g.exc # "none" THEN Raise(g.st, g.exc)
            ELSE Return(g.st, id)

\* lines 115-140: construct, store, configure
WebServerFactory_build(s, env) ==
    LET l == MCPServerFactory_lifespan(s) IN
    IF l.exc # "none" THEN Raise(l.st, l.exc)
    ELSE
        LET id == Len(l.st.apps) + 1
            s1 == [l.st EXCEPT !.web = id, !.apps = Append(@, FastAPI(l.ret))]
            g  == get_settings(s1, NoSettingsArgs, env)
        IN  IF g.exc # "none" THEN Raise(g.st, g.exc)
            ELSE Return([g.st EXCEPT !.apps[id].cors = g.ret,
                                     !.apps[id].health = TRUE], id)

WebServerFactory_create_NoAssert(s, env) ==
    Logged("web_factory.create", WebServerFactory_build(s, env))

WebServerFactory_create(s, env) ==
    Logged("web_factory.create",
        IF s.web # None THEN Raise(s, "AssertionError")
        ELSE WebServerFactory_build(s, env))

\* WebServerFactory.create statement by statement, as a thread that can be
\* preempted between two statements runs it.  Line 112: the assertion
create_assert(s) ==
    IF s.web # None THEN Raise(s, "AssertionError") ELSE Return(s, None)

create_store_Recheck(s) ==
    IF s.web # None THEN Raise(s, "AssertionError")
    ELSE
        LET l == MCPServerFactory_lifespan(s) IN
        IF l.exc # "none" THEN Raise(l.st, l.exc)
        ELSE LET id == Len(l.st.apps) + 1 IN
             Return([l.st EXCEPT !.web = id, !.apps = Append(@, FastAPI(l.ret))], id)

\* lines 115-120: construct the application and assign it to the global
create_store(s) ==
    LET l == MCPServerFactory_lifespan(s) IN
    IF l.exc # "none" THEN Raise(l.st, l.exc)
    ELSE LET id == Len(l.st.apps) + 1 IN
         Return([l.st EXCEPT !.web = id, !.apps = Append(@, FastAPI(l.ret))], id)

\* lines 126-132: add_middleware on what the global holds now
create_cors(s, settings) ==
    IF s.web = None THEN Raise(s, "AttributeError")
    ELSE Return([s EXCEPT !.apps[s.web].cors = settings], None)

\* lines 135-138: register GET /health on what the global holds now
create_health(s) ==
    IF s.web = None THEN Raise(s, "AttributeError")
    ELSE Return([s EXCEPT !.apps[s.web].health = TRUE], None)

\* line 140: return what the global holds now
create_return(s) == Return(s, s.web)

WebServerFactory_get_Rebuild(s) ==
    Logged("web_factory.get",
        IF s.web = None THEN Raise(s, "AssertionError")
        ELSE LET id == Len(s.apps) + 1 IN
             Return([s EXCEPT !.web = id,
                              !.apps = Append(@, s.apps[s.web])], id))

WebServerFactory_get_Unchecked(s) ==
    Logged("web_factory.get", Return(s, s.web))

WebServerFactory_get(s) ==
    Logged("web_factory.get",
        IF s.web = None THEN Raise(s, "AssertionError")
        ELSE Return(s, s.web))

WebServerFactory_reset_Noop(s) ==
    Logged("web_factory.reset", Return(s, None))

WebServerFactory_reset_Guarded(s) ==
    Logged("web_factory.reset",
        IF s.web = None THEN Raise(s, "AssertionError")
        ELSE Return([s EXCEPT !.web = None], None))

WebServerFactory_reset(s) ==
    Logged("web_factory.reset", Return([s EXCEPT !.web = None], None))

\* src/web_server/models/response/health_check.py: the response body
HealthyCheckResponseDto(status) == [status |-> status]

\* lines 135-138: the handler of GET /health
health_check == HealthyCheckResponseDto("healthy")

\* the application app serves GET path: the handler of the route answers,
\* and a path with no route is answered 404
serve_GET(s, app, path) ==
    IF path = "/health" /\ s.apps[app].health
    THEN Return(s, [status_code |-> 200, body |-> health_check])
    ELSE Return(s, [status_code |-> 404, body |-> [detail |-> "Not Found"]])

\* ---- src/integrate/app.py (IntegratedServerFactory) --------------------
\* lines 164-179: the transport as the enum member, or the error raised
NormalizeTransport(t) ==
    IF t.kind = "absent" THEN [exc |-> "none", val |-> SSE]
    ELSE IF t.kind = "str" THEN
        IF \E m \in MCPTransportType : m.value = t.val
        THEN [exc |-> "none", val |-> CHOOSE m \in MCPTransportType : m.value = t.val]
        ELSE [exc |-> "ValueError", val |-> t]
    ELSE IF t.kind = "enum" THEN
        [exc |-> "none", val |-> CHOOSE m \in MCPTransportType : m.name = t.val]
    ELSE [exc |-> "none", val |-> t]

EnsureMcp_Recreate(s) ==
    MCPServerFactory_create(MCPServerFactory_reset(s).st)

\* lines 185-189
EnsureMcp(s) ==
    LET g == MCPServerFactory_get(s) IN
    IF g.exc = "AssertionError" THEN MCPServerFactory_create(g.st) ELSE g

\* lines 191-195
EnsureWeb(s, env) ==
    LET g == WebServerFactory_get(s) IN
    IF g.exc = "AssertionError" THEN WebServerFactory_create(g.st, env) ELSE g

MountAndStore_StoreFirst(s, app, transport, path) ==
    LET s1 == [s EXCEPT !.integ = app] IN
    IF transport = SSE THEN
        LET g == MCPServerFactory_get(s1)
            m == mount(g.st, app, path, sse_app(g.ret))
        IN  Return(m.st, app)
    ELSE IF transport = HTTP_STREAMING THEN
        LET g == MCPServerFactory_get(s1)
            m == mount(g.st, app, path, streamable_http_app(g.ret))
        IN  Return(m.st, app)
    ELSE Raise(s1, "ValueError")

MountAndStore_NoStore(s, app, transport, path) ==
    IF transport = SSE THEN
        LET g == MCPServerFactory_get(s)
            m == mount(g.st, app, path, sse_app(g.ret))
        IN  Return(m.st, app)
    ELSE IF transport = HTTP_STREAMING THEN
        LET g == MCPServerFactory_get(s)
            m == mount(g.st, app, path, streamable_http_app(g.ret))
        IN  Return(m.st, app)
    ELSE Raise(s, "ValueError")

MountAndStore_Idempotent(s, app, transport, path) ==
    IF transport \notin MCPTransportType THEN Raise(s, "ValueError")
    ELSE IF s.apps[app].mounts # << >> THEN Return([s EXCEPT !.integ = app], app)
    ELSE
        LET g == MCPServerFactory_get(s)
            a == IF transport = SSE THEN sse_app(g.ret) ELSE streamable_http_app(g.ret)
            m == mount(g.st, app, path, a)
        IN  Return([m.st EXCEPT !.integ = app], app)

\* lines 197-215
MountAndStore(s, app, transport, path) ==
    IF transport = SSE THEN
        LET g == MCPServerFactory_get(s)
            m == mount(g.st, app, path, sse_app(g.ret))
        IN  Return([m.st EXCEPT !.integ = app], app)
    ELSE IF transport = HTTP_STREAMING THEN
        LET g == MCPServerFactory_get(s)
            m == mount(g.st, app, path, streamable_http_app(g.ret))
        IN  Return([m.st EXCEPT !.integ = app], app)
    ELSE Raise(s, "ValueError")

IntegratedServerFactory_create_LateCheck(s, kwargs, env) ==
    Logged("integrated_factory.create",
        LET m == EnsureMcp(s) IN
        IF m.exc # "none" THEN Raise(m.st, m.exc)
        ELSE
            LET w == EnsureWeb(m.st, env)
                n == NormalizeTransport(kwargs.mcp_transport)
            IN  IF w.exc # "none" THEN Raise(w.st, w.exc)
                ELSE IF n.exc # "none" THEN Raise(w.st, n.exc)
                ELSE IF kwargs.mcp_mount_path = Absent /\ n.val \notin MCPTransportType
                THEN Raise(w.st, "KeyError")
                ELSE MountAndStore(w.st, w.ret, n.val,
                                   IF kwargs.mcp_mount_path = Absent
                                   THEN DEFAULT_MOUNT_PATHS(n.val)
                                   ELSE kwargs.mcp_mount_path))

IntegratedServerFactory_create_WebFirst(s, kwargs, env) ==
    Logged("integrated_factory.create",
        LET n == NormalizeTransport(kwargs.mcp_transport) IN
        IF n.exc # "none" THEN Raise(s, n.exc)
        ELSE IF kwargs.mcp_mount_path = Absent /\ n.val \notin MCPTransportType
        THEN Raise(s, "KeyError")
        ELSE
            LET path == IF kwargs.mcp_mount_path = Absent
                        THEN DEFAULT_MOUNT_PATHS(n.val)
                        ELSE kwargs.mcp_mount_path
                w == EnsureWeb(s, env)
            IN  IF w.exc # "none" THEN Raise(w.st, w.exc)
                ELSE
                    LET m == EnsureMcp(w.st) IN
                    IF m.exc # "none" THEN Raise(m.st, m.exc)
                    ELSE MountAndStore(m.st, w.ret, n.val, path))

IntegratedServerFactory_create_Retrying(s, kwargs, env) ==
    Logged("integrated_factory.create",
        LET token == kwargs.token
            retry == kwargs.retry
            n == NormalizeTransport(kwargs.mcp_transport)
        IN
        IF n.exc # "none" THEN Raise(s, n.exc)
        ELSE IF kwargs.mcp_mount_path = Absent /\ n.val \notin MCPTransportType
        THEN Raise(s, "KeyError")
        ELSE
            LET path == IF kwargs.mcp_mount_path = Absent
                        THEN DEFAULT_MOUNT_PATHS(n.val)
                        ELSE kwargs.mcp_mount_path
                m == EnsureMcp(s)
            IN  IF m.exc # "none" THEN Raise(m.st, m.exc)
                ELSE
                    LET w == EnsureWeb(m.st, env) IN
                    IF w.exc # "none" THEN Raise(w.st, w.exc)
                    ELSE IF retry = 0 THEN Raise(w.st, "ValueError")
                    ELSE MountAndStore(w.st, w.ret, n.val, path))

\* lines 163-215; token and retry are read (lines 163, 166) and not used
IntegratedServerFactory_create(s, kwargs, env) ==
    Logged("integrated_factory.create",
        LET token == kwargs.token
            retry == kwargs.retry
            n == NormalizeTransport(kwargs.mcp_transport)
        IN
        IF n.exc # "none" THEN Raise(s, n.exc)
        ELSE IF kwargs.mcp_mount_path = Absent /\ n.val \notin MCPTransportType
        THEN Raise(s, "KeyError")
        ELSE
            LET path == IF kwargs.mcp_mount_path = Absent
                        THEN DEFAULT_MOUNT_PATHS(n.val)
                        ELSE kwargs.mcp_mount_path
                m == EnsureMcp(s)
            IN  IF m.exc # "none" THEN Raise(m.st, m.exc)
                ELSE
                    LET w == EnsureWeb(m.st, env) IN
                    IF w.exc # "none" THEN Raise(w.st, w.exc)
                    ELSE MountAndStore(w.st, w.ret, n.val, path))

IntegratedServerFactory_get_Unchecked(s) ==
    Logged("integrated_factory.get", Return(s, s.integ))

IntegratedServerFactory_get(s) ==
    Logged("integrated_factory.get",
        IF s.integ = None THEN Raise(s, "AssertionError")
        ELSE Return(s, s.integ))

IntegratedServerFactory_reset_NoCascade(s) ==
    Logged("integrated_factory.reset",
        LET s1 == [s EXCEPT !.integ = None]
            m  == MCPServerFactory_reset(s1)
        IN  Return(m.st, None))

IntegratedServerFactory_reset(s) ==
    Logged("integrated_factory.reset",
        LET s1 == [s EXCEPT !.integ = None]
            m  == MCPServerFactory_reset(s1)
            w  == WebServerFactory_reset(m.st)
        IN  Return(w.st, None))

\* ---- src/web_server/app.py (mount_service, create_app) ------------------
\* transport == member, for a str-valued enum: a string equals the member
\* whose value it is
TransportIs(transport, member) ==
    \/ transport.kind = "str" /\ transport.val = member.value
    \/ transport.kind = "enum" /\ transport.val = member.name

mount_service_EagerGet(s, transport) ==
    LET w == WebServerFactory_get(s) IN
    IF w.exc # "none" THEN Raise(w.st, w.exc)
    ELSE
        LET g == MCPServerFactory_get(w.st) IN
        IF g.exc # "none" THEN Raise(g.st, g.exc)
        ELSE IF TransportIs(transport, SSE)
             THEN Return(mount(g.st, w.ret, "/sse", sse_app(g.ret)).st, None)
        ELSE IF TransportIs(transport, HTTP_STREAMING)
             THEN Return(mount(g.st, w.ret, "/mcp",
                               streamable_http_app(g.ret)).st, None)
        ELSE Raise(g.st, "ValueError")

\* lines 217-223
mount_service(s, transport) ==
    IF TransportIs(transport, SSE) \/ TransportIs(transport, HTTP_STREAMING) THEN
        LET w == WebServerFactory_get(s) IN
        IF w.exc # "none" THEN Raise(w.st, w.exc)
        ELSE
            LET g == MCPServerFactory_get(w.st) IN
            IF g.exc # "none" THEN Raise(g.st, g.exc)
            ELSE IF TransportIs(transport, SSE)
                 THEN Return(mount(g.st, w.ret, "/sse", sse_app(g.ret)).st, None)
                 ELSE Return(mount(g.st, w.ret, "/mcp",
                                   streamable_http_app(g.ret)).st, None)
    ELSE Raise(s, "ValueError")

\* create_app() called without a ServerConfig (server_config=None)
NoServerConfig == [server_config |-> "None"]

\* lines 279-293
create_app(s, server_config, env) ==
    Logged("create_app",
        LET g == WebServerFactory_get(s)
            a == IF g.exc = "AssertionError"
                 THEN WebServerFactory_create(g.st, env) ELSE g
            transport == IF server_config = NoServerConfig
                         THEN [kind |-> "enum", val |-> "SSE"]
                         ELSE server_config.transport
        IN  IF a.exc # "none" THEN Raise(a.st, a.exc)
            ELSE
                LET m == mount_service(a.st, transport) IN
                IF m.exc # "none" THEN Raise(m.st, m.exc)
                ELSE Return(m.st, a.ret))

\* ---- src/entry.py -----------------------------------------------------
\* uvicorn.run(app=app, ...): serves app until the server is stopped
uvicorn_run(s, app) ==
    LoggedWith("uvicorn.run", [app |-> app], Return(s, None))

\* FastMCP.run(transport=...): serves over the given transport until stopped
FastMCP_run(s, server, transport) ==
    LoggedWith("mcp_server.run", [server |-> server, transport |-> transport],
               Return(s, None))

\* lines 149-228: the Namespace, or exit status 2 when --transport is not
\* one of the choices
parse_args(argv) ==
    IF argv.transport # Absent
            /\ argv.transport \notin { m.value : m \in MCPTransportType }
    THEN [exc |-> "SystemExit(2)", val |-> argv]
    ELSE [exc |-> "none",
          val |-> [ port |-> IF argv.port = None THEN 8000 ELSE argv.port,
                    env_file |-> IF argv.env_file = Absent THEN ".env"
                                 ELSE argv.env_file,
                    no_env_file |-> argv.no_env_file,
                    token |-> argv.token,
                    transport |-> IF argv.transport = Absent THEN "sse"
                                  ELSE argv.transport,
                    integrated |-> argv.integrated ]]

\* lines 303-312: the fields of ServerConfig are taken from the Namespace
\* (no_env_file and integrated are none of them) and validated, or exit
\* status 1
create_server_config(args) ==
    IF args.port < 1 \/ args.port > 65535
    THEN [exc |-> "SystemExit(1)", val |-> args]
    ELSE [exc |-> "none",
          val |-> [ port |-> args.port, env_file |-> args.env_file,
                    token |-> args.token,
                    transport |-> [kind |-> "str", val |-> args.transport] ]]

initialize_server_environment_Raising(s, config, env) ==
    LET g == get_settings(s, [ env_file |-> config.env_file,
                               no_env_file |-> (config.env_file = Absent),
                               force_reload |-> FALSE,
                               api_token |-> config.token,
                               port |-> None ], env)
    IN  g

\* lines 345-362: the Settings instance, or None when loading it failed
initialize_server_environment(s, config, env) ==
    LET g == get_settings(s, [ env_file |-> config.env_file,
                               no_env_file |-> (config.env_file = Absent),
                               force_reload |-> FALSE,
                               api_token |-> config.token,
                               port |-> None ], env)
    IN  IF g.exc # "none" THEN Return(g.st, None) ELSE g

\* lines 387-416
run_standalone_server(s, config, env) ==
    Logged("run_standalone_server",
        LET i == initialize_server_environment(s, config, env) IN
        IF i.exc # "none" THEN Raise(i.st, i.exc)
        ELSE IF i.ret = None THEN Return(i.st, None)
        ELSE
            LET c == MCPServerFactory_create(i.st)
                m == IF c.exc = "AssertionError" THEN MCPServerFactory_get(c.st)
                     ELSE c
            IN  IF m.exc # "none" THEN Raise(m.st, m.exc)
                ELSE IF \/ TransportIs(config.transport, SSE)
                        \/ TransportIs(config.transport, HTTP_STREAMING)
                THEN
                    LET a == create_app(m.st, config, env) IN
                    IF a.exc # "none" THEN Raise(a.st, a.exc)
                    ELSE Return(uvicorn_run(a.st, a.ret).st, None)
                ELSE Return(FastMCP_run(m.st, m.ret, "stdio").st, None))

run_integrated_server_NoCatch(s, config, env) ==
    Logged("run_integrated_server",
        LET i == initialize_server_environment(s, config, env) IN
        IF i.exc # "none" THEN Raise(i.st, i.exc)
        ELSE IF i.ret = None THEN Return(i.st, None)
        ELSE
            LET a == IntegratedServerFactory_create(i.st,
                        [ token |-> i.st.sobjs[i.ret].api_token,
                          mcp_transport |-> config.transport,
                          mcp_mount_path |-> "/mcp", retry |-> 3 ], env)
            IN  IF a.exc # "none" THEN Raise(a.st, a.exc)
                ELSE Return(uvicorn_run(a.st, a.ret).st, None))

\* lines 441-466; pydantic's ValidationError is a ValueError
run_integrated_server(s, config, env) ==
    Logged("run_integrated_server",
        LET i == initialize_server_environment(s, config, env) IN
        IF i.exc # "none" THEN Raise(i.st, i.exc)
        ELSE IF i.ret = None THEN Return(i.st, None)
        ELSE
            LET a == IntegratedServerFactory_create(i.st,
                        [ token |-> i.st.sobjs[i.ret].api_token,
                          mcp_transport |-> config.transport,
                          mcp_mount_path |-> "/mcp", retry |-> 3 ], env)
            IN  IF a.exc \in { "ValueError", "ValidationError" }
                THEN Return(a.st, None)
                ELSE IF a.exc # "none" THEN Raise(a.st, a.exc)
                ELSE Return(uvicorn_run(a.st, a.ret).st, None))

main_NoValidation(s, argv, env) ==
    LET p == parse_args(argv) IN
    IF p.exc # "none" THEN Raise(s, p.exc)
    ELSE
        LET config == [ port |-> p.val.port, env_file |-> p.val.env_file,
                        token |-> p.val.token,
                        transport |-> [kind |-> "str", val |-> p.val.transport] ]
        IN  IF p.val.integrated THEN run_integrated_server(s, config, env)
            ELSE run_standalone_server(s, config, env)

\* lines 495-505
main(s, argv, env) ==
    LET p == parse_args(argv) IN
    IF p.exc # "none" THEN Raise(s, p.exc)
    ELSE
        LET c == create_server_config(p.val) IN
        IF c.exc # "none" THEN Raise(s, c.exc)
        ELSE IF p.val.integrated THEN run_integrated_server(s, c.val, env)
        ELSE run_standalone_server(s, c.val, env)

\* ---- concurrent callers ---------------------------------------------------
\* a caller that is not inside create(): exc and ret are the outcome of its
\* last call, made the application that call constructed
Idle == [ pc |-> "idle", settings |-> None, made |-> None, exc |-> "none",
          ret |-> None ]

\* ---- top-level calls ---------------------------------------------------
\* A caller runs create(), keeps the instance A it returned, and resets the
\* same factory: captured remembers A for exactly that long.  Any other call
\* in between ends the scenario.
Capture(old, op, r) ==
    [ mcp |-> IF op = "mcp_factory.create" /\ r.exc = "none" THEN r.ret
              ELSE IF op = "mcp_factory.reset" THEN old.mcp
              ELSE None,
      web |-> IF op = "web_factory.create" /\ r.exc = "none" THEN r.ret
              ELSE IF op = "web_factory.reset" THEN old.web
              ELSE None,
      settings |-> IF op = "get_settings" /\ r.exc = "none" THEN r.ret
                   ELSE IF op \in { "get_settings", "reset_settings" }
                   THEN old.settings
                   ELSE None ]

\* A FastAPI object that no slot refers to any more is out of the factories'
\* reach (and is collected unless the caller kept it): its identity stays
\* used, its contents are dropped.
Collected == [lifespan |-> None, cors |-> None, health |-> FALSE, mounts |-> << >>]

Collect(s) ==
    [s EXCEPT !.apps = [i \in DOMAIN s.apps |->
                            IF i \in {s.web, s.integ}
                                     \cup { threads[t].ret : t \in Callers }
                            THEN s.apps[i] ELSE Collected]]

\* the Settings objects that are still referred to (live), the others
\* freed, and the freed ones at the end dropped
RECURSIVE Trim(_)
Trim(objs) ==
    IF objs # << >> /\ objs[Len(objs)] = Freed
    THEN Trim(SubSeq(objs, 1, Len(objs) - 1))
    ELSE objs

CollectSettings(objs, live) ==
    Trim([i \in DOMAIN objs |-> IF i \in live THEN objs[i] ELSE Freed])

\* the model stops constructing objects and mounting at the bounds
Bounded(s) ==
    /\ s.nMcp <= MaxMcp
    /\ Len(s.apps) <= MaxWeb
    /\ \A a \in DOMAIN s.apps : Len(s.apps[a].mounts) <= MaxMounts

\* a caller runs method op with the given arguments; r is its result
Do(op, kwargs, r) ==
    /\ Bounded(r.st)
    /\ MCP_SERVER_INSTANCE' = r.st.mcp
    /\ WEB_SERVER_INSTANCE' = r.st.web
    /\ INTEGRATED_SERVER_INSTANCE' = r.st.integ
    /\ settings_instance' = r.st.settings
    /\ captured' = Capture(captured, op, r)
    /\ settings_objs' = CollectSettings(r.st.sobjs,
                                        { r.st.settings, captured'.settings })
    /\ apps' = Collect(r.st).apps
    /\ nMcp' = r.st.nMcp
    /\ call' = [ op |-> op, kwargs |-> kwargs, exc |-> r.exc, ret |-> r.ret,
                 log |-> r.st.log ]
    /\ okCreates' = IF op = "integrated_factory.create" /\ r.exc = "none"
                    THEN okCreates + 1
                    ELSE IF Count(r.st.log, "web_factory.reset") > 0 THEN 0
                    ELSE okCreates
    /\ UNCHANGED threads

Init ==
    /\ MCP_SERVER_INSTANCE = None
    /\ WEB_SERVER_INSTANCE = None
    /\ INTEGRATED_SERVER_INSTANCE = None
    /\ settings_instance = None
    /\ settings_objs = << >>
    /\ apps = << >>
    /\ nMcp = 0
    /\ call = [ op |-> "import", kwargs |-> NoKwargs, exc |-> "none",
                ret |-> None, log |-> << >> ]
    /\ captured = [ mcp |-> None, web |-> None, settings |-> None ]
    /\ okCreates = 0
    /\ threads = [t \in Callers |-> Idle]

MCPCreate == Do("mcp_factory.create", NoKwargs, MCPServerFactory_create(S))

MCPGet == Do("mcp_factory.get", NoKwargs, MCPServerFactory_get(S))

MCPReset == Do("mcp_factory.reset", NoKwargs, MCPServerFactory_reset(S))

MCPLifespan == Do("mcp_factory.lifespan", NoKwargs, MCPServerFactory_lifespan(S))

WebCreate ==
    \E env \in FactoryEnvs :
        Do("web_factory.create", NoKwargs, WebServerFactory_create(S, env))

WebGet == Do("web_factory.get", NoKwargs, WebServerFactory_get(S))

WebReset == Do("web_factory.reset", NoKwargs, WebServerFactory_reset(S))

IntegratedCreate(K) ==
    \E kwargs \in K, env \in FactoryEnvs :
        Do("integrated_factory.create", kwargs,
           IntegratedServerFactory_create(S, kwargs, env))

IntegratedGet ==
    Do("integrated_factory.get", NoKwargs, IntegratedServerFactory_get(S))

IntegratedReset ==
    Do("integrated_factory.reset", NoKwargs, IntegratedServerFactory_reset(S))

ResetSettings == Do("reset_settings", NoKwargs, reset_settings(S))

Next ==
    \/ MCPCreate
    \/ MCPGet
    \/ MCPReset
    \/ MCPLifespan
    \/ WebCreate
    \/ WebGet
    \/ WebReset
    \/ IntegratedCreate(CommonKwargs)
    \/ IntegratedGet
    \/ IntegratedReset
    \/ ResetSettings

Spec == Init /\ [][Next]_vars

\* only IntegratedServerFactory is used by the caller
NextIntegrated ==
    \/ IntegratedCreate(IntegratedServerKwargs)
    \/ IntegratedGet
    \/ IntegratedReset

SpecIntegrated == Init /\ [][NextIntegrated]_vars

\* the command lines: --integrated, --transport, --env-file, --no-env-file,
\* --token and --port, each given or left out; a command line with a port
\* out of range, with a transport that is no choice or with a token has no
\* other option besides --integrated and, for the token, --transport
Argvs ==
    { a \in [ integrated : BOOLEAN,
              transport : { Absent, "sse", "http-streaming", "stdio" },
              env_file : { Absent, "/custom/.env" }, no_env_file : BOOLEAN,
              token : { Absent, "test_token" }, port : { None, 70000 } ] :
        /\ (a.port # None \/ a.transport = "stdio" \/ a.token # Absent) =>
                (a.env_file = Absent /\ ~a.no_env_file)
        /\ a.port # None => (a.transport = Absent /\ a.token = Absent)
        /\ a.transport = "stdio" => a.token = Absent }

\* ServerConfig objects handed to the run functions directly: ServerConfig()
\* with its default transport member, a validated string, and a transport
\* assigned after construction; env_file a path or None
ServerConfigs ==
    [ port : { 8000 }, env_file : { ".env", Absent }, token : { Absent },
      transport : { [kind |-> "enum", val |-> "SSE"],
                    [kind |-> "str", val |-> "http-streaming"],
                    [kind |-> "str", val |-> "stdio"] } ]

Main ==
    \E argv \in Argvs, env \in FactoryEnvs : Do("main", argv, main(S, argv, env))

RunStandalone ==
    \E config \in ServerConfigs, env \in FactoryEnvs :
        Do("run_standalone_server", config, run_standalone_server(S, config, env))

RunIntegrated ==
    \E config \in ServerConfigs, env \in FactoryEnvs :
        Do("run_integrated_server", config, run_integrated_server(S, config, env))

\* the entry point and the run functions, in a process that may be reset
\* between runs
NextEntry ==
    \/ Main
    \/ RunStandalone
    \/ RunIntegrated
    \/ IntegratedReset
    \/ ResetSettings

SpecEntry == Init /\ [][NextEntry]_vars

\* a caller of src/config.py alone
GetSettings ==
    \E a \in GetSettingsArgs, env \in Envs :
        Do("get_settings", a, get_settings(S, a, env))

NextSettings ==
    \/ GetSettings
    \/ ResetSettings

SpecSettings == Init /\ [][NextSettings]_vars

\* the transports handed to mount_service: the two members, a valid
\* string, an invalid string and a value of another type
MountTransports ==
    { [kind |-> "enum", val |-> "SSE"], [kind |-> "enum", val |-> "HTTP_STREAMING"],
      [kind |-> "str", val |-> "http-streaming"],
      [kind |-> "str", val |-> "invalid_transport"], [kind |-> "other", val |-> 42] }

MountService ==
    \E transport \in MountTransports :
        Do("mount_service", [transport |-> transport], mount_service(S, transport))

CreateApp ==
    \E server_config \in ServerConfigs \cup { NoServerConfig }, env \in FactoryEnvs :
        Do("create_app", server_config, create_app(S, server_config, env))

\* a client requests GET /health from the application of the web slot
ServeHealth ==
    /\ WEB_SERVER_INSTANCE # None
    /\ Do("GET /health", [app |-> WEB_SERVER_INSTANCE],
          serve_GET(S, WEB_SERVER_INSTANCE, "/health"))

\* a caller of src/web_server/app.py and of the MCP factory it depends on
NextWeb ==
    \/ MCPCreate
    \/ MCPReset
    \/ WebCreate
    \/ WebGet
    \/ WebReset
    \/ MountService
    \/ CreateApp
    \/ ServeHealth
    \/ ResetSettings

SpecWeb == Init /\ [][NextWeb]_vars

\* caller t runs one statement, with result r, and is at th afterwards
Step(t, r, th) ==
    /\ Bounded(r.st)
    /\ MCP_SERVER_INSTANCE' = r.st.mcp
    /\ WEB_SERVER_INSTANCE' = r.st.web
    /\ INTEGRATED_SERVER_INSTANCE' = r.st.integ
    /\ settings_instance' = r.st.settings
    /\ settings_objs' = r.st.sobjs
    /\ apps' = r.st.apps
    /\ nMcp' = r.st.nMcp
    /\ threads' = [threads EXCEPT ![t] = th]
    /\ UNCHANGED << call, captured, okCreates >>

\* the call ends with exception exc or returns ret
Done(th, exc, ret) == [th EXCEPT !.pc = "done", !.exc = exc, !.ret = ret]

\* caller t calls WebServerFactory.create(), directly or, as the ensure step
\* of integrate/app.py lines 191-195 does, after get() has failed
ThreadCall(t) ==
    /\ threads[t].pc = "idle"
    /\ \E pc \in { "assert", "get" } :
            Step(t, Return(S, None), [Idle EXCEPT !.pc = pc])

\* integrate/app.py lines 191-193: get() finds an instance or fails
ThreadGet(t) ==
    /\ threads[t].pc = "get"
    /\ LET r == WebServerFactory_get(S) IN
       Step(t, r, IF r.exc = "none" THEN Done(threads[t], "none", r.ret)
                  ELSE [threads[t] EXCEPT !.pc = "assert"])

ThreadAssert(t) ==
    /\ threads[t].pc = "assert"
    /\ LET r == create_assert(S) IN
       Step(t, r, IF r.exc = "none" THEN [threads[t] EXCEPT !.pc = "store"]
                  ELSE Done(threads[t], r.exc, None))

ThreadStore(t) ==
    /\ threads[t].pc = "store"
    /\ LET r == create_store(S) IN
       Step(t, r, IF r.exc = "none"
                  THEN [threads[t] EXCEPT !.pc = "settings", !.made = r.ret]
                  ELSE Done(threads[t], r.exc, None))

ThreadSettings(t) ==
    /\ threads[t].pc = "settings"
    /\ \E env \in FactoryEnvs :
        LET r == get_settings(S, NoSettingsArgs, env) IN
        Step(t, r, IF r.exc = "none"
                   THEN [threads[t] EXCEPT !.pc = "cors", !.settings = r.ret]
                   ELSE Done(threads[t], r.exc, None))

ThreadCors(t) ==
    /\ threads[t].pc = "cors"
    /\ LET r == create_cors(S, threads[t].settings) IN
       Step(t, r, IF r.exc = "none" THEN [threads[t] EXCEPT !.pc = "health"]
                  ELSE Done(threads[t], r.exc, None))

ThreadHealth(t) ==
    /\ threads[t].pc = "health"
    /\ LET r == create_health(S) IN
       Step(t, r, IF r.exc = "none" THEN [threads[t] EXCEPT !.pc = "return"]
                  ELSE Done(threads[t], r.exc, None))

ThreadReturn(t) ==
    /\ threads[t].pc = "return"
    /\ LET r == create_return(S) IN Step(t, r, Done(threads[t], "none", r.ret))

\* two callers of WebServerFactory.create with no mutual exclusion, in a
\* process whose MCP instance is created by a sequential caller
NextRace ==
    \/ MCPCreate
    \/ \E t \in Callers : ThreadCall(t)
    \/ \E t \in Callers : ThreadGet(t)
    \/ \E t \in Callers : ThreadAssert(t)
    \/ \E t \in Callers : ThreadStore(t)
    \/ \E t \in Callers : ThreadSettings(t)
    \/ \E t \in Callers : ThreadCors(t)
    \/ \E t \in Callers : ThreadHealth(t)
    \/ \E t \in Callers : ThreadReturn(t)

SpecRace == Init /\ [][NextRace]_vars

\* ---- properties --------------------------------------------------------
Last(seq) == seq[Len(seq)]

\* the forms of mcp_transport that name the SSE transport
SseForms ==
    { [kind |-> "absent", val |-> Absent], [kind |-> "str", val |-> "sse"],
      [kind |-> "enum", val |-> "SSE"] }

\* the forms of mcp_transport that name the HTTP streaming transport
HttpForms ==
    { [kind |-> "str", val |-> "http-streaming"],
      [kind |-> "enum", val |-> "HTTP_STREAMING"] }

\* C1: create() on MCPServerFactory or WebServerFactory while the slot holds
\* an instance raises AssertionError and leaves the slot unchanged, so that
\* get() afterwards returns the instance of the first create(); and a create()
\* that succeeds stores in the slot the instance it returns.
C1_SecondCreateFails ==
    [][ /\ (call'.op = "mcp_factory.create" /\ MCP_SERVER_INSTANCE # None) =>
            /\ call'.exc = "AssertionError"
            /\ MCP_SERVER_INSTANCE' = MCP_SERVER_INSTANCE
            /\ MCPServerFactory_get(S').exc = "none"
            /\ MCPServerFactory_get(S').ret = MCP_SERVER_INSTANCE
        /\ (call'.op = "web_factory.create" /\ WEB_SERVER_INSTANCE # None) =>
            /\ call'.exc = "AssertionError"
            /\ WEB_SERVER_INSTANCE' = WEB_SERVER_INSTANCE
            /\ apps' = apps
            /\ WebServerFactory_get(S').exc = "none"
            /\ WebServerFactory_get(S').ret = WEB_SERVER_INSTANCE
        /\ (call'.op = "mcp_factory.create" /\ call'.exc = "none") =>
            MCP_SERVER_INSTANCE' = call'.ret
        /\ (call'.op = "web_factory.create" /\ call'.exc = "none") =>
            WEB_SERVER_INSTANCE' = call'.ret
      ]_vars

\* a second WebServerFactory.create() was refused while the slot held the
\* fully configured instance of the first
C1_Witness ==
    /\ call.op = "web_factory.create"
    /\ call.exc = "AssertionError"
    /\ WEB_SERVER_INSTANCE # None
    /\ apps[WEB_SERVER_INSTANCE].health

\* C2: get() of each of the three factories, and MCPServerFactory.lifespan(),
\* called while the factory's slot is empty raises AssertionError and leaves
\* all three slots unchanged.
C2_GetOnEmptyFails ==
    [][ /\ (call'.op = "mcp_factory.get" /\ MCP_SERVER_INSTANCE = None) =>
            /\ call'.exc = "AssertionError"
            /\ UNCHANGED << MCP_SERVER_INSTANCE, WEB_SERVER_INSTANCE,
                            INTEGRATED_SERVER_INSTANCE >>
        /\ (call'.op = "web_factory.get" /\ WEB_SERVER_INSTANCE = None) =>
            /\ call'.exc = "AssertionError"
            /\ UNCHANGED << MCP_SERVER_INSTANCE, WEB_SERVER_INSTANCE,
                            INTEGRATED_SERVER_INSTANCE >>
        /\ (call'.op = "integrated_factory.get" /\ INTEGRATED_SERVER_INSTANCE = None) =>
            /\ call'.exc = "AssertionError"
            /\ UNCHANGED << MCP_SERVER_INSTANCE, WEB_SERVER_INSTANCE,
                            INTEGRATED_SERVER_INSTANCE >>
        /\ (call'.op = "mcp_factory.lifespan" /\ MCP_SERVER_INSTANCE = None) =>
            /\ call'.exc = "AssertionError"
            /\ UNCHANGED << MCP_SERVER_INSTANCE, WEB_SERVER_INSTANCE,
                            INTEGRATED_SERVER_INSTANCE >>
      ]_vars

\* IntegratedServerFactory.get() failed on a slot that a reset had emptied
\* (objects had been constructed before)
C2_Witness ==
    /\ call.op = "integrated_factory.get"
    /\ call.exc = "AssertionError"
    /\ INTEGRATED_SERVER_INSTANCE = None
    /\ Len(apps) > 0
    /\ WEB_SERVER_INSTANCE = None

\* C3: after IntegratedServerFactory.reset(), whatever the state it was
\* called in, the call has returned normally, has invoked reset exactly once
\* on MCPServerFactory and once on WebServerFactory, and all three slots are
\* empty.
C3_ResetCascades ==
    call.op = "integrated_factory.reset" =>
        /\ call.exc = "none"
        /\ Count(call.log, "mcp_factory.reset") = 1
        /\ Count(call.log, "web_factory.reset") = 1
        /\ MCP_SERVER_INSTANCE = None
        /\ WEB_SERVER_INSTANCE = None
        /\ INTEGRATED_SERVER_INSTANCE = None

\* IntegratedServerFactory.reset() ran after both sub-servers had been
\* constructed and has left every slot empty
C3_Witness ==
    /\ call.op = "integrated_factory.reset"
    /\ nMcp > 0
    /\ Len(apps) > 0
    /\ MCP_SERVER_INSTANCE = None
    /\ WEB_SERVER_INSTANCE = None
    /\ INTEGRATED_SERVER_INSTANCE = None

C5_ResetIdempotent ==
    [][ /\ call'.op = "mcp_factory.reset" =>
            /\ call'.exc = "none"
            /\ MCP_SERVER_INSTANCE' = None
            /\ UNCHANGED << WEB_SERVER_INSTANCE, INTEGRATED_SERVER_INSTANCE >>
            /\ MCPServerFactory_reset(S').exc = "none"
            /\ [MCPServerFactory_reset(S').st EXCEPT !.log = << >>] = S'
        /\ call'.op = "web_factory.reset" =>
            /\ call'.exc = "none"
            /\ WEB_SERVER_INSTANCE' = None
            /\ UNCHANGED << MCP_SERVER_INSTANCE, INTEGRATED_SERVER_INSTANCE >>
            /\ WebServerFactory_reset(S').exc = "none"
            /\ [WebServerFactory_reset(S').st EXCEPT !.log = << >>] = S'
      ]_vars

\* WebServerFactory.reset() emptied its slot while the other two slots held
\* instances, which it left in place
C5_Witness ==
    /\ call.op = "web_factory.reset"
    /\ WEB_SERVER_INSTANCE = None
    /\ MCP_SERVER_INSTANCE # None
    /\ INTEGRATED_SERVER_INSTANCE # None

C9_ComposedIsWebInstance ==
    [][ /\ (call'.op = "integrated_factory.create" /\ call'.exc = "none") =>
            /\ call'.ret # None
            /\ call'.ret = INTEGRATED_SERVER_INSTANCE'
            /\ call'.ret = WEB_SERVER_INSTANCE'
            /\ WEB_SERVER_INSTANCE # None =>
                   (call'.ret = WEB_SERVER_INSTANCE /\ Len(apps') = Len(apps))
            /\ WEB_SERVER_INSTANCE = None =>
                   (Count(call'.log, "web_factory.create") = 1
                        /\ Len(apps') = Len(apps) + 1)
        /\ (call'.op = "integrated_factory.get" /\ INTEGRATED_SERVER_INSTANCE # None) =>
            /\ call'.exc = "none"
            /\ call'.ret = INTEGRATED_SERVER_INSTANCE
            /\ INTEGRATED_SERVER_INSTANCE' = INTEGRATED_SERVER_INSTANCE
        /\ ( /\ INTEGRATED_SERVER_INSTANCE # None
             /\ INTEGRATED_SERVER_INSTANCE' # INTEGRATED_SERVER_INSTANCE ) =>
            \/ call'.op = "integrated_factory.reset"
            \/ /\ call'.op = "integrated_factory.create"
               /\ WEB_SERVER_INSTANCE # INTEGRATED_SERVER_INSTANCE
      ]_vars

\* IntegratedServerFactory.get() returned the composed application, which is
\* the instance WebServerFactory holds
C9_Witness ==
    /\ call.op = "integrated_factory.get"
    /\ call.exc = "none"
    /\ call.ret = WEB_SERVER_INSTANCE
    /\ call.ret = INTEGRATED_SERVER_INSTANCE
    /\ apps[call.ret].mounts # << >>

C11_ComposedCreateRefused ==
    [][ ( /\ call'.op = "integrated_factory.create"
          /\ INTEGRATED_SERVER_INSTANCE # None ) =>
            /\ call'.exc # "none"
            /\ UNCHANGED << INTEGRATED_SERVER_INSTANCE, WEB_SERVER_INSTANCE,
                            MCP_SERVER_INSTANCE, apps >>
      ]_vars

\* C12: WebServerFactory.create() on an empty web slot is never refused with
\* an AssertionError, whether the MCP slot holds an instance or not; when it
\* returns, the application is stored in the web slot, and its lifespan hook
\* is the one of the MCP instance if there is one.
C12_WebCreateWithoutMcp ==
    [][ (call'.op = "web_factory.create" /\ WEB_SERVER_INSTANCE = None) =>
            /\ call'.exc # "AssertionError"
            /\ call'.exc = "none" =>
                /\ call'.ret # None
                /\ WEB_SERVER_INSTANCE' = call'.ret
                /\ apps'[call'.ret].lifespan = MCP_SERVER_INSTANCE
      ]_vars

\* the places in the log where method name was invoked
Calls(log, name) == { i \in DOMAIN log : log[i].name = name }

\* the run functions and the entry point that calls them
RunOps == { "run_standalone_server", "run_integrated_server", "main" }

\* C13: when the settings fail to load in run_standalone_server or
\* run_integrated_server (called directly or from main), the function returns
\* normally, no factory create has been invoked, nothing has been mounted,
\* neither uvicorn nor the stdio server has been started, and the three
\* slots, the applications and the settings cache are as before the call.
C13_SettingsFailureAborts ==
    [][ ( /\ call'.op \in RunOps
          /\ \E i \in Calls(call'.log, "get_settings") : call'.log[i].exc # "none" ) =>
            /\ call'.exc = "none"
            /\ Count(call'.log, "mcp_factory.create") = 0
            /\ Count(call'.log, "web_factory.create") = 0
            /\ Count(call'.log, "integrated_factory.create") = 0
            /\ Count(call'.log, "mount") = 0
            /\ Count(call'.log, "uvicorn.run") = 0
            /\ Count(call'.log, "mcp_server.run") = 0
            /\ UNCHANGED << MCP_SERVER_INSTANCE, WEB_SERVER_INSTANCE,
                            INTEGRATED_SERVER_INSTANCE, apps, nMcp,
                            settings_instance >>
      ]_vars

\* run_integrated_server gave up on settings that did not load, in a process
\* whose three slots held instances, and left them in place
C13_Witness ==
    /\ call.op = "run_integrated_server"
    /\ call.exc = "none"
    /\ \E i \in Calls(call.log, "get_settings") : call.log[i].exc = "ValidationError"
    /\ settings_instance = None
    /\ MCP_SERVER_INSTANCE # None
    /\ WEB_SERVER_INSTANCE # None
    /\ INTEGRATED_SERVER_INSTANCE # None

\* C14: when IntegratedServerFactory.create raises ValueError inside
\* run_integrated_server (called directly or from main), the call returns
\* normally and uvicorn has not been started.
C14_ValueErrorCaught ==
    ( /\ call.op \in { "run_integrated_server", "main" }
      /\ \E i \in Calls(call.log, "integrated_factory.create") :
              call.log[i].exc = "ValueError" ) =>
        /\ call.exc = "none"
        /\ Count(call.log, "uvicorn.run") = 0

\* run_integrated_server was given a configuration whose transport is
\* "stdio": the composition create refused it and the function returned
C14_Witness ==
    /\ call.op = "run_integrated_server"
    /\ call.kwargs.transport = [kind |-> "str", val |-> "stdio"]
    /\ \E i \in Calls(call.log, "integrated_factory.create") :
            call.log[i].exc = "ValueError"
    /\ call.exc = "none"

\* C15: main() with a --transport that is no choice exits with status 2 and
\* with a port out of range exits with status 1, in both cases before either
\* run function is entered and with the process state untouched; otherwise
\* it enters exactly one run function, once: run_integrated_server exactly
\* if --integrated is given, else run_standalone_server.
C15_OnePathAfterValidation ==
    [][ call'.op = "main" =>
          LET argv == call'.kwargs
              badChoice == argv.transport \notin { Absent, "sse", "http-streaming" }
              badPort == argv.port # None /\ (argv.port < 1 \/ argv.port > 65535)
              runs == Count(call'.log, "run_integrated_server")
                        + Count(call'.log, "run_standalone_server")
          IN  /\ badChoice => call'.exc = "SystemExit(2)"
              /\ (~badChoice /\ badPort) => call'.exc = "SystemExit(1)"
              /\ (badChoice \/ badPort) =>
                    /\ call'.log = << >>
                    /\ UNCHANGED << MCP_SERVER_INSTANCE, WEB_SERVER_INSTANCE,
                                    INTEGRATED_SERVER_INSTANCE, apps, nMcp,
                                    settings_instance >>
              /\ (~badChoice /\ ~badPort) =>
                    /\ call'.exc \notin { "SystemExit(1)", "SystemExit(2)" }
                    /\ runs = 1
                    /\ Count(call'.log, "run_integrated_server") = 1
                            <=> argv.integrated
      ]_vars

\* main() with --integrated went through run_integrated_server and started
\* uvicorn on the composed application
C15_Witness ==
    /\ call.op = "main"
    /\ call.kwargs.integrated
    /\ call.exc = "none"
    /\ Count(call.log, "run_integrated_server") = 1
    /\ \E i \in Calls(call.log, "uvicorn.run") :
            call.log[i].args.app = INTEGRATED_SERVER_INSTANCE

\* C16: the application that main() hands to uvicorn has, as the mount made
\* by this run, the SSE adapter at "/sse" when the transport is sse (given or
\* by default) and the streamable-HTTP adapter at "/mcp" when it is
\* http-streaming, with and without --integrated.
C16_EntryMountPaths ==
    (call.op = "main" /\ Count(call.log, "uvicorn.run") = 1) =>
        LET app == call.log[CHOOSE i \in Calls(call.log, "uvicorn.run") : TRUE].args.app
            m == Last(apps[app].mounts)
        IN  IF call.kwargs.transport \in { Absent, "sse" }
            THEN m.path = "/sse" /\ m.app.kind = "sse_app"
            ELSE m.path = "/mcp" /\ m.app.kind = "streamable_http_app"

\* C17: main() without --transport and without --integrated, once the
\* settings have loaded, runs the MCP server over stdio and does not start
\* uvicorn.
C17_StdioIsDefault ==
    ( /\ call.op = "main"
      /\ call.kwargs.transport = Absent
      /\ ~call.kwargs.integrated
      /\ call.kwargs.port = None
      /\ \A i \in Calls(call.log, "get_settings") : call.log[i].exc = "none" ) =>
        /\ \E i \in Calls(call.log, "mcp_server.run") :
                call.log[i].args.transport = "stdio"
        /\ Count(call.log, "uvicorn.run") = 0

\* C18: main() with --no-env-file loads the settings by a get_settings call
\* (the first of the run) with no_env_file=True, and a Settings object built
\* by that call was handed no _env_file.
C18_NoEnvFileSkipsDotenv ==
    [][ ( /\ call'.op = "main"
          /\ call'.kwargs.no_env_file
          /\ Calls(call'.log, "get_settings") # { } ) =>
            LET first == CHOOSE i \in Calls(call'.log, "get_settings") :
                            \A j \in Calls(call'.log, "get_settings") : i <= j
                load == call'.log[first]
            IN  /\ load.args.no_env_file
                /\ (settings_instance = None /\ load.exc = "none") =>
                       settings_objs'[load.ret].env_file = Absent
      ]_vars

\* C19: the Settings instance that a get_settings call returns carries every
\* override passed in that call: its api_token is the api_token argument and
\* its port the port argument, whatever calls came before.
C19_OverridesWin ==
    (call.op = "get_settings" /\ call.exc = "none") =>
        /\ call.kwargs.api_token # Absent =>
               settings_objs[call.ret].api_token = call.kwargs.api_token
        /\ call.kwargs.port # None =>
               settings_objs[call.ret].port = call.kwargs.port

C22_CreatedAppIsConfigured ==
    [][ /\ \A i \in DOMAIN call'.log :
            ( /\ call'.log[i].name = "web_factory.create"
              /\ call'.log[i].exc = "none" ) =>
                LET app == call'.log[i].ret IN
                /\ apps'[app].cors # None
                /\ apps'[app].cors = settings_instance'
                /\ apps'[app].health
                /\ serve_GET(S', app, "/health").ret =
                        [status_code |-> 200, body |-> [status |-> "healthy"]]
        /\ ( /\ call'.op = "GET /health"
              /\ apps[call'.kwargs.app].health ) =>
                /\ call'.exc = "none"
                /\ call'.ret.status_code = 200
                /\ call'.ret.body.status = "healthy"
                /\ MCP_SERVER_INSTANCE' = MCP_SERVER_INSTANCE
                /\ WEB_SERVER_INSTANCE' = WEB_SERVER_INSTANCE
                /\ INTEGRATED_SERVER_INSTANCE' = INTEGRATED_SERVER_INSTANCE
                /\ apps' = apps
      ]_vars

\* GET /health has been served by an application that create() returned and
\* that has a mount
C22_Witness ==
    /\ call.op = "GET /health"
    /\ call.ret.status_code = 200
    /\ apps[call.kwargs.app].health
    /\ Len(apps[call.kwargs.app].mounts) = 1

\* the mount that mount_service makes for transport t on the instance mcp
MountOf(t, mcp) ==
    IF t \in SseForms
    THEN [path |-> "/sse", app |-> [kind |-> "sse_app", server |-> mcp]]
    ELSE [path |-> "/mcp", app |-> [kind |-> "streamable_http_app", server |-> mcp]]

\* C30: mount_service(transport) with SSE or HTTP_STREAMING (the member or
\* its string) succeeds when both slots hold an instance, and when it
\* succeeds it has mounted exactly one adapter on the application of the web
\* slot: the SSE adapter of the MCP instance at "/sse", the streamable-HTTP
\* adapter at "/mcp"; when it fails nothing is mounted.  For any other
\* transport it raises ValueError without calling a factory and without
\* mounting, whatever the slots hold.  A create_app that returns has made
\* exactly one such mount, on the application the web slot held before the
\* call or, if it held none, on the one application it created, and returns
\* that application.
C30_MountService ==
    [][ /\ call'.op = "mount_service" =>
            LET t == call'.kwargs.transport IN
            /\ MCP_SERVER_INSTANCE' = MCP_SERVER_INSTANCE
            /\ WEB_SERVER_INSTANCE' = WEB_SERVER_INSTANCE
            /\ INTEGRATED_SERVER_INSTANCE' = INTEGRATED_SERVER_INSTANCE
            /\ t \in SseForms \cup HttpForms =>
                /\ (WEB_SERVER_INSTANCE # None /\ MCP_SERVER_INSTANCE # None) =>
                        call'.exc = "none"
                /\ call'.exc # "none" =>
                        /\ call'.exc = "AssertionError"
                        /\ Count(call'.log, "mount") = 0
                        /\ apps' = apps
                /\ call'.exc = "none" =>
                        /\ WEB_SERVER_INSTANCE # None
                        /\ Count(call'.log, "mount") = 1
                        /\ apps' = [apps EXCEPT ![WEB_SERVER_INSTANCE].mounts =
                                        Append(@, MountOf(t, MCP_SERVER_INSTANCE))]
            /\ t \notin SseForms \cup HttpForms =>
                /\ call'.exc = "ValueError"
                /\ call'.log = << >>
                /\ apps' = apps
        /\ (call'.op = "create_app" /\ call'.exc = "none") =>
            LET t == IF call'.kwargs = NoServerConfig
                     THEN [kind |-> "enum", val |-> "SSE"]
                     ELSE call'.kwargs.transport
                app == call'.ret
            IN
            /\ t \in SseForms \cup HttpForms
            /\ Count(call'.log, "mount") = 1
            /\ app = WEB_SERVER_INSTANCE'
            /\ \A i \in DOMAIN call'.log :
                    call'.log[i].name = "mount" => call'.log[i].ret = app
            /\ IF WEB_SERVER_INSTANCE # None
               THEN /\ app = WEB_SERVER_INSTANCE
                    /\ Count(call'.log, "web_factory.create") = 0
                    /\ apps'[app].mounts =
                           Append(apps[app].mounts, MountOf(t, MCP_SERVER_INSTANCE'))
               ELSE /\ app \notin DOMAIN apps
                    /\ Count(call'.log, "web_factory.create") = 1
                    /\ apps'[app].mounts = << MountOf(t, MCP_SERVER_INSTANCE') >>
      ]_vars

\* mount_service was refused an unknown transport while both slots were
\* empty
C30_Witness ==
    /\ call.op = "mount_service"
    /\ call.exc = "ValueError"
    /\ call.kwargs.transport.kind = "str"
    /\ MCP_SERVER_INSTANCE = None
    /\ WEB_SERVER_INSTANCE = None

\* C23 as stated: a composition create with a valid transport never invokes
\* WebServerFactory.create while the MCP slot is empty, never raises the
\* AssertionError of the lifespan precondition, and ends with the MCP slot,
\* the web slot and the composed slot all non-empty.
C23_EndsWithAllSlots ==
    [][ ( /\ call'.op = "integrated_factory.create"
          /\ call'.kwargs.mcp_transport \in SseForms \cup HttpForms ) =>
            /\ \A i \in DOMAIN call'.log :
                    call'.log[i].name = "mcp_factory.lifespan" =>
                        call'.log[i].exc = "none"
            /\ call'.exc # "AssertionError"
            /\ MCP_SERVER_INSTANCE' # None
            /\ WEB_SERVER_INSTANCE' # None
            /\ INTEGRATED_SERVER_INSTANCE' # None
      ]_vars

\* C23, amended: a composition create with a valid transport has obtained or
\* created the MCP instance before it invokes WebServerFactory.create, so
\* that the lifespan precondition never fails and the call never raises
\* AssertionError; it ends with the MCP slot non-empty; it raises only when
\* the settings of a web server it has to create do not load (a
\* ValidationError), and then the composed slot is left as it was; and when
\* it returns, the web slot and the composed slot hold the instance returned.
C23_McpBeforeWeb ==
    [][ ( /\ call'.op = "integrated_factory.create"
          /\ call'.kwargs.mcp_transport \in SseForms \cup HttpForms ) =>
            /\ \A i \in DOMAIN call'.log :
                    call'.log[i].name = "web_factory.create" =>
                        \E j \in 1 .. i - 1 :
                            /\ call'.log[j].name \in
                                   { "mcp_factory.get", "mcp_factory.create" }
                            /\ call'.log[j].exc = "none"
                            /\ call'.log[j].ret = MCP_SERVER_INSTANCE'
            /\ \A i \in DOMAIN call'.log :
                    call'.log[i].name = "mcp_factory.lifespan" =>
                        call'.log[i].exc = "none"
            /\ call'.exc \in { "none", "ValidationError" }
            /\ MCP_SERVER_INSTANCE' # None
            /\ call'.exc = "ValidationError" =>
                    /\ WEB_SERVER_INSTANCE = None
                    /\ settings_instance = None
                    /\ INTEGRATED_SERVER_INSTANCE' = INTEGRATED_SERVER_INSTANCE
            /\ call'.exc = "none" =>
                    /\ WEB_SERVER_INSTANCE' = call'.ret
                    /\ INTEGRATED_SERVER_INSTANCE' = call'.ret
      ]_vars

\* a composition create on two empty slots created the MCP instance, then
\* the web server, and returned
C23_Witness ==
    /\ call.op = "integrated_factory.create"
    /\ call.exc = "none"
    /\ \E i, j \in DOMAIN call.log :
            /\ i < j
            /\ call.log[i].name = "mcp_factory.create"
            /\ call.log[i].exc = "none"
            /\ call.log[j].name = "web_factory.create"
            /\ call.log[j].exc = "none"

\* C24: whenever the web slot holds an application, the FastMCP instance
\* whose lifespan was bound into that application when it was constructed is
\* the instance the MCP slot holds now, and every adapter mounted on the
\* application was taken from that same instance.
C24_LifespanOfServedMcp ==
    WEB_SERVER_INSTANCE # None =>
        /\ MCP_SERVER_INSTANCE # None
        /\ apps[WEB_SERVER_INSTANCE].lifespan = MCP_SERVER_INSTANCE
        /\ \A i \in DOMAIN apps[WEB_SERVER_INSTANCE].mounts :
                apps[WEB_SERVER_INSTANCE].mounts[i].app.server = MCP_SERVER_INSTANCE

\* C25: whenever the composed slot holds an instance, the web slot holds the
\* same instance.
C25_ComposedIsWebSlot ==
    INTEGRATED_SERVER_INSTANCE # None =>
        /\ WEB_SERVER_INSTANCE # None
        /\ WEB_SERVER_INSTANCE = INTEGRATED_SERVER_INSTANCE

\* C26: a WebServerFactory.create() that raises, for whatever reason, leaves
\* the web slot holding what it held before the call.
C26_FailedCreateKeepsSlot ==
    [][ (call'.op = "web_factory.create" /\ call'.exc # "none") =>
            WEB_SERVER_INSTANCE' = WEB_SERVER_INSTANCE ]_vars

\* C28: IntegratedServerFactory.create does not roll back.  Given a transport
\* that is neither a string nor a member together with a mount path, it runs
\* the ensure steps and, unless the settings of a new web server fail to
\* load, raises ValueError at the mount step: the MCP slot and the web slot
\* then hold the instances found or created, nothing has been mounted, the
\* composed slot is as it was before the call, and
\* IntegratedServerFactory.reset() called next empties all three slots.
C28_NoRollback ==
    [][ ( /\ call'.op = "integrated_factory.create"
          /\ call'.kwargs.mcp_transport.kind = "other"
          /\ call'.kwargs.mcp_mount_path # Absent ) =>
            /\ call'.exc \in { "ValueError", "ValidationError" }
            /\ call'.exc = "ValidationError" =>
                    (WEB_SERVER_INSTANCE = None /\ settings_instance = None)
            /\ call'.exc = "ValueError" =>
                /\ Count(call'.log, "mcp_factory.get") = 1
                /\ Count(call'.log, "web_factory.get") = 1
                /\ MCP_SERVER_INSTANCE' # None
                /\ MCP_SERVER_INSTANCE = None =>
                        Count(call'.log, "mcp_factory.create") = 1
                /\ MCP_SERVER_INSTANCE # None =>
                        MCP_SERVER_INSTANCE' = MCP_SERVER_INSTANCE
                /\ WEB_SERVER_INSTANCE' # None
                /\ IF WEB_SERVER_INSTANCE = None
                   THEN /\ Count(call'.log, "web_factory.create") = 1
                        /\ apps'[WEB_SERVER_INSTANCE'].mounts = << >>
                   ELSE /\ WEB_SERVER_INSTANCE' = WEB_SERVER_INSTANCE
                        /\ apps'[WEB_SERVER_INSTANCE'] = apps[WEB_SERVER_INSTANCE]
                /\ Count(call'.log, "mount") = 0
                /\ INTEGRATED_SERVER_INSTANCE' = INTEGRATED_SERVER_INSTANCE
                /\ LET r == IntegratedServerFactory_reset(S') IN
                   /\ r.exc = "none"
                   /\ r.st.mcp = None
                   /\ r.st.web = None
                   /\ r.st.integ = None
      ]_vars

\* in a process with empty slots a composition create failed at the mount
\* step and left the two instances it had created
C28_Witness ==
    /\ call.op = "integrated_factory.create"
    /\ call.kwargs.mcp_transport.kind = "other"
    /\ call.exc = "ValueError"
    /\ Count(call.log, "mcp_factory.create") = 1
    /\ Count(call.log, "web_factory.create") = 1
    /\ MCP_SERVER_INSTANCE # None
    /\ WEB_SERVER_INSTANCE # None
    /\ INTEGRATED_SERVER_INSTANCE = None

\* the factory get() methods
GetOps == { "mcp_factory.get", "web_factory.get", "integrated_factory.get" }

\* C29: a get() that succeeds, on any of the three factories, returns the
\* instance of its slot and changes nothing: the three slots, the
\* applications and their mounts, the FastMCP objects and the cached
\* settings are the same before and after; and the same get() called again
\* returns the same identity.
C29_GetChangesNothing ==
    [][ (call'.op \in GetOps /\ call'.exc = "none") =>
            /\ call'.ret # None
            /\ call'.ret = CASE call'.op = "mcp_factory.get" -> MCP_SERVER_INSTANCE
                              [] call'.op = "web_factory.get" -> WEB_SERVER_INSTANCE
                              [] OTHER -> INTEGRATED_SERVER_INSTANCE
            /\ MCP_SERVER_INSTANCE' = MCP_SERVER_INSTANCE
            /\ WEB_SERVER_INSTANCE' = WEB_SERVER_INSTANCE
            /\ INTEGRATED_SERVER_INSTANCE' = INTEGRATED_SERVER_INSTANCE
            /\ apps' = apps
            /\ nMcp' = nMcp
            /\ settings_instance' = settings_instance
            /\ LET again == CASE call'.op = "mcp_factory.get" -> MCPServerFactory_get(S')
                               [] call'.op = "web_factory.get" -> WebServerFactory_get(S')
                               [] OTHER -> IntegratedServerFactory_get(S')
               IN  /\ again.exc = "none"
                   /\ again.ret = call'.ret
                   /\ again.st.mcp = MCP_SERVER_INSTANCE
                   /\ again.st.web = WEB_SERVER_INSTANCE
                   /\ again.st.integ = INTEGRATED_SERVER_INSTANCE
                   /\ again.st.apps = apps
      ]_vars

\* WebServerFactory.get() has returned an application that carries two
\* mounts
C29_Witness ==
    /\ call.op = "web_factory.get"
    /\ call.exc = "none"
    /\ Len(apps[call.ret].mounts) = 2

\* C27: WebServerFactory.create is a check-then-write that is not atomic.  A
\* caller that has passed the assertion assigns its new application to the
\* slot without looking at the slot again, whatever another caller has
\* stored there meanwhile, and the call returns what the slot holds when it
\* returns; so when two concurrent callers have both returned and hold
\* different instances, the slot holds one of the two and get() does not
\* return the instance of the other caller.
C27_CheckThenWrite ==
    [][ /\ \A t \in Callers :
            ( /\ threads[t].pc = "store"
              /\ threads'[t].pc # "store"
              /\ MCP_SERVER_INSTANCE # None ) =>
                /\ threads'[t].pc = "settings"
                /\ threads'[t].made \notin DOMAIN apps
                /\ WEB_SERVER_INSTANCE' = threads'[t].made
        /\ \A t \in Callers :
            (threads[t].pc = "return" /\ threads'[t].pc = "done") =>
                /\ threads'[t].exc = "none"
                /\ threads'[t].ret = WEB_SERVER_INSTANCE
        /\ ( /\ \A t \in Callers : threads'[t].pc = "done" /\ threads'[t].exc = "none"
              /\ threads'[1].ret # threads'[2].ret ) =>
                /\ WEB_SERVER_INSTANCE' \in { threads'[1].ret, threads'[2].ret }
                /\ \E t \in Callers :
                       WebServerFactory_get(S').ret # threads'[t].ret
      ]_vars

\* both callers passed the assertion on the empty slot and both returned the
\* application they had constructed; the second write replaced the first,
\* and get() returns the second caller's instance only
C27_Witness ==
    /\ \A t \in Callers :
            /\ threads[t].pc = "done"
            /\ threads[t].exc = "none"
            /\ threads[t].made # None
            /\ threads[t].ret = threads[t].made
    /\ threads[1].ret # threads[2].ret
    /\ threads[1].made < threads[2].made
    /\ WEB_SERVER_INSTANCE = threads[2].ret
    /\ WebServerFactory_get(S).ret # threads[1].ret

====
